---- MODULE Spec2Model ----
(***************************************************************************)
(* Registration-form validator (FormValidator).                            *)
(*                                                                         *)
(* A string is a sequence of one-character strings, so that trim(),        *)
(* toLowerCase(), length and the regular expressions of the rule table are *)
(* computed character by character.                                        *)
(***************************************************************************)
EXTENDS Integers, Sequences, FiniteSets, TLC

VARIABLES
    variant,     \* "A": rule table with the registered-email rule, "B": without
    value,       \* value[f]: the text of input element f
    ui,          \* ui[f]: classList ('error', 'success') of input f and textContent of its error span
    stored,      \* localStorage item 'registeredEmails': Null or the stored array
    successMsg,  \* the successMessage element: class 'show' and textContent
    timers,      \* pending setTimeout(() => this.reset(), 3000) callbacks, oldest first
    last         \* the handler that ran last and what it returned

vars == <<variant, value, ui, stored, successMsg, timers, last>>

----------------------------------------------------------------------------
(* Characters *)

UpperSeq == <<"A","B","C","D","E","F","G","H","I","J","K","L","M",
              "N","O","P","Q","R","S","T","U","V","W","X","Y","Z">>

LowerSeq == <<"a","b","c","d","e","f","g","h","i","j","k","l","m",
              "n","o","p","q","r","s","t","u","v","w","x","y","z">>

Upper == {UpperSeq[i] : i \in 1..Len(UpperSeq)}

Lower == {LowerSeq[i] : i \in 1..Len(LowerSeq)}

Digit == {"0","1","2","3","4","5","6","7","8","9"}

\* the characters \s matches and trim() strips (the ones a text input can hold
\* or a script can assign)
Whitespace == {" ", "\t", "\n", "\r", "\f"}

\* the character class [!@#$%^&*(),.?":{}|<>]
Special == {"!","@","#","$","%","^","&","*","(",")",",",".","?","\"",":","{","}","|","<",">"}

----------------------------------------------------------------------------
(* String.prototype functions *)

RECURSIVE trimStart(_)
trimStart(s) ==
    IF s = <<>> THEN <<>>
    ELSE IF Head(s) \in Whitespace THEN trimStart(Tail(s))
    ELSE s

RECURSIVE trimEnd(_)
trimEnd(s) ==
    IF s = <<>> THEN <<>>
    ELSE IF s[Len(s)] \in Whitespace THEN trimEnd(SubSeq(s, 1, Len(s) - 1))
    ELSE s

trim(s) == trimEnd(trimStart(s))

lowerChar(c) ==
    IF c \in Upper
    THEN LowerSeq[CHOOSE i \in 1..Len(UpperSeq) : UpperSeq[i] = c]
    ELSE c

toLowerCase(s) == [i \in 1..Len(s) |-> lowerChar(s[i])]

\* Array.prototype.includes on an array of strings
includes(arr, s) == \E i \in 1..Len(arr) : arr[i] = s

----------------------------------------------------------------------------
(* The rule table *)

fields == <<"name", "email", "password", "confirmPassword">>

Fields == {fields[i] : i \in 1..Len(fields)}

\* formData? of ValidationRule.validate when the caller passes none
Undefined == [undefined |-> TRUE]

\* localStorage.getItem of a key that was never set
Null == [json |-> "null"]

\* the item set to the empty string
EmptyString == [json |-> "empty"]

\* what a call that throws yields in place of an array
Throw == <<<<"throw">>>>

\* a table with the lowercase and digit rules of password in the other order
rules_swapped(vt) ==
    [name            |-> <<"nameRequired", "nameMinLength", "nameLetters">>,
     email           |-> IF vt = "A"
                         THEN <<"emailRequired", "emailFormat", "emailUnique">>
                         ELSE <<"emailRequired", "emailFormat">>,
     password        |-> <<"passwordRequired", "passwordMinLength", "passwordUpper",
                           "passwordDigit", "passwordLower", "passwordSpecial">>,
     confirmPassword |-> <<"confirmRequired", "confirmMatch">>]

\* rules[field]: the rule chain of a field, each rule named by what it checks
rules(vt) ==
    [name            |-> <<"nameRequired", "nameMinLength", "nameLetters">>,
     email           |-> IF vt = "A"
                         THEN <<"emailRequired", "emailFormat", "emailUnique">>
                         ELSE <<"emailRequired", "emailFormat">>,
     password        |-> <<"passwordRequired", "passwordMinLength", "passwordUpper",
                           "passwordLower", "passwordDigit", "passwordSpecial">>,
     confirmPassword |-> <<"confirmRequired", "confirmMatch">>]

message(rule) ==
    CASE rule = "nameRequired"      -> "Name is required"
      [] rule = "nameMinLength"     -> "Name must be at least 2 characters long"
      [] rule = "nameLetters"       -> "Name can only contain letters and spaces"
      [] rule = "emailRequired"     -> "Email is required"
      [] rule = "emailFormat"       -> "Please enter a valid email address"
      [] rule = "emailUnique"       -> "This email is already registered"
      [] rule = "passwordRequired"  -> "Password is required"
      [] rule = "passwordMinLength" -> "Password must be at least 8 characters long"
      [] rule = "passwordUpper"     -> "Password must contain at least one uppercase letter"
      [] rule = "passwordLower"     -> "Password must contain at least one lowercase letter"
      [] rule = "passwordDigit"     -> "Password must contain at least one number"
      [] rule = "passwordSpecial"   -> "Password must contain at least one special character"
      [] rule = "confirmRequired"   -> "Please confirm your password"
      [] rule = "confirmMatch"      -> "Passwords do not match"

NameMinLength == 2

PasswordMinLength == 8

\* /^[a-zA-Z\s]+$/.test(s)
nameRegex(s) ==
    /\ Len(s) > 0
    /\ \A i \in 1..Len(s) : s[i] \in Lower \cup Upper \cup Whitespace

\* /^[^\s@]+@[^\s@]+$/.test(s): a pattern that asks for no "." after the "@"
emailRegex_noDot(s) ==
    \E i \in 1..Len(s) :
        /\ 1 < i /\ i < Len(s)
        /\ s[i] = "@"
        /\ \A k \in (1..Len(s)) \ {i} : s[k] \notin Whitespace \cup {"@"}

\* /^[^\s@]+@[^\s@]+\.[^\s@]+$/.test(s): s splits as local "@" domain "." tld,
\* the three parts non-empty and free of whitespace and "@"
emailRegex(s) ==
    \E i \in 1..Len(s), j \in 1..Len(s) :
        /\ 1 < i /\ i + 1 < j /\ j < Len(s)
        /\ s[i] = "@"
        /\ s[j] = "."
        /\ \A k \in (1..Len(s)) \ {i, j} : s[k] \notin Whitespace \cup {"@"}

\* /[X]/.test(s) for a character class X
hasChar(s, class) == \E i \in 1..Len(s) : s[i] \in class

\* JSON.stringify of an array of strings, and JSON.parse: the array of such a
\* text; of "" a SyntaxError; of null the value null, whose includes is a TypeError
JSONstringify(arr) == [json |-> "array", items |-> arr]

JSONparse(text) == IF text.json = "array" THEN text.items ELSE Throw

\* a getRegisteredEmails that parses whatever getItem returns
getRegisteredEmails_unguarded(st) == JSONparse(st)

\* stored ? JSON.parse(stored) : []  (null and "" are falsy)
getRegisteredEmails(st) == IF st \notin {Null, EmptyString} THEN JSONparse(st) ELSE <<>>

\* a lookup that does not lowercase the email
isEmailRegistered_caseSensitive(email, st) == includes(getRegisteredEmails(st), email)

isEmailRegistered(email, st) == includes(getRegisteredEmails(st), toLowerCase(email))

\* a saveEmail that stores the email as typed
saveEmail_raw(email, st) ==
    LET registeredEmails == getRegisteredEmails(st) IN
    IF ~includes(registeredEmails, email)
    THEN JSONstringify(Append(registeredEmails, email))
    ELSE st

\* the new content of the localStorage item after saveEmail(email)
saveEmail(email, st) ==
    LET registeredEmails == getRegisteredEmails(st) IN
    IF ~includes(registeredEmails, toLowerCase(email))
    THEN JSONstringify(Append(registeredEmails, toLowerCase(email)))
    ELSE st

\* a comparison that accepts any confirmation
passwordsMatch_any(v, data) == data # Undefined

\* a comparison that trims both sides
passwordsMatch_trimmed(v, data) ==
    IF data # Undefined THEN trim(v) = trim(data.password) ELSE FALSE

\* the validate of the second confirmPassword rule
\* a rule that matches when it is given no record
passwordsMatch_open(v, data) == IF data # Undefined THEN v = data.password ELSE TRUE

passwordsMatch(v, data) == IF data # Undefined THEN v = data.password ELSE FALSE

\* rule.validate(v, data) throws: only the registered-email rule calls anything
\* that can throw
raises(rule, v, data, st) == rule = "emailUnique" /\ getRegisteredEmails(st) = Throw

\* rule.validate(v, data); st is what the rule reads from localStorage
validate(rule, v, data, st) ==
    CASE rule = "nameRequired"      -> Len(trim(v)) > 0
      [] rule = "nameMinLength"     -> Len(trim(v)) >= NameMinLength
      [] rule = "nameLetters"       -> nameRegex(trim(v))
      [] rule = "emailRequired"     -> Len(trim(v)) > 0
      [] rule = "emailFormat"       -> emailRegex(trim(v))
      [] rule = "emailUnique"       -> ~isEmailRegistered(trim(v), st)
      [] rule = "passwordRequired"  -> Len(v) > 0
      [] rule = "passwordMinLength" -> Len(v) >= PasswordMinLength
      [] rule = "passwordUpper"     -> hasChar(v, Upper)
      [] rule = "passwordLower"     -> hasChar(v, Lower)
      [] rule = "passwordDigit"     -> hasChar(v, Digit)
      [] rule = "passwordSpecial"   -> hasChar(v, Special)
      [] rule = "confirmRequired"   -> Len(v) > 0
      [] rule = "confirmMatch"      -> passwordsMatch(v, data)

----------------------------------------------------------------------------
(* The handlers, as functions of the document *)

\* the document after form.reset() and the loop of reset(); the inputs of the
\* form have no default value, so form.reset() empties them
emptyValues == [f \in Fields |-> <<>>]

clearedUi == [f \in Fields |-> [error |-> FALSE, success |-> FALSE, text |-> ""]]

getFormData(val) ==
    [name            |-> val["name"],
     email           |-> val["email"],
     password        |-> val["password"],
     confirmPassword |-> val["confirmPassword"]]

\* a loop that does not stop at the first failing rule
RECURSIVE firstFailing_last(_, _, _, _, _)
firstFailing_last(rs, i, v, data, st) ==
    IF i > Len(rs) THEN 0
    ELSE LET later == firstFailing_last(rs, i + 1, v, data, st) IN
         IF later # 0 THEN later
         ELSE IF ~validate(rs[i], v, data, st) THEN i ELSE 0

\* the for loop of validateField: the index of the first rule of rs, from i on,
\* whose validate is false, 0 when the loop runs to its end, -1 when a validate
\* throws before that
RECURSIVE firstFailing(_, _, _, _, _)
firstFailing(rs, i, v, data, st) ==
    IF i > Len(rs) THEN 0
    ELSE IF raises(rs[i], v, data, st) THEN -1
    ELSE IF ~validate(rs[i], v, data, st) THEN i
    ELSE firstFailing(rs, i + 1, v, data, st)

\* a validateField that wipes the marks of the other fields
validateField_wipesOthers(field, val, dom, st, vt) ==
    LET formData == getFormData(val)
        v        == formData[field]
        k        == firstFailing(rules(vt)[field], 1, v, formData, st)
    IN  IF k = -1
        THEN [ok |-> FALSE, threw |-> TRUE, ui |-> dom]
        ELSE IF k # 0
        THEN [ok |-> FALSE, threw |-> FALSE,
              ui |-> [clearedUi EXCEPT ![field] =
                         [error |-> TRUE, success |-> FALSE,
                          text |-> message(rules(vt)[field][k])]]]
        ELSE [ok |-> TRUE, threw |-> FALSE,
              ui |-> [clearedUi EXCEPT ![field] =
                         [error |-> FALSE, success |-> TRUE, text |-> ""]]]

\* validateField(field): the value returned and the document it leaves
validateField(field, val, dom, st, vt) ==
    LET formData == getFormData(val)
        v        == formData[field]
        k        == firstFailing(rules(vt)[field], 1, v, formData, st)
    IN  IF k = -1
        THEN [ok |-> FALSE, threw |-> TRUE, ui |-> dom]
        ELSE IF k # 0
        THEN [ok |-> FALSE, threw |-> FALSE,
              ui |-> [dom EXCEPT ![field] =
                         [error |-> TRUE, success |-> FALSE,
                          text |-> message(rules(vt)[field][k])]]]
        ELSE [ok |-> TRUE, threw |-> FALSE,
              ui |-> [dom EXCEPT ![field] =
                         [error |-> FALSE, success |-> TRUE, text |-> ""]]]

\* a clearError that removes the success class too
clearError_all(field, dom) ==
    [dom EXCEPT ![field] = [error |-> FALSE, success |-> FALSE, text |-> ""]]

\* a clearError that removes the class and leaves the message
clearError_keepsText(field, dom) ==
    [dom EXCEPT ![field] = [error |-> FALSE, success |-> dom[field].success,
                            text |-> dom[field].text]]

clearError(field, dom) ==
    [dom EXCEPT ![field] = [error |-> FALSE, success |-> dom[field].success, text |-> ""]]

\* this.fields.every(field => this.validateField(field)) from field i on:
\* every stops calling back at the first field whose callback returns false
RECURSIVE every(_, _, _, _, _)
every(i, val, dom, st, vt) ==
    IF i > Len(fields) THEN [ok |-> TRUE, threw |-> FALSE, ui |-> dom]
    ELSE LET r == validateField(fields[i], val, dom, st, vt) IN
         IF ~r.ok THEN [ok |-> FALSE, threw |-> r.threw, ui |-> r.ui]
         ELSE every(i + 1, val, r.ui, st, vt)

\* fields.some in place of fields.every
validateAll_some(val, dom, st, vt) ==
    LET r == every(1, val, dom, st, vt) IN
    [ok    |-> \E f \in Fields : validateField(f, val, dom, st, vt).ok,
     threw |-> r.threw,
     ui    |-> r.ui]

validateAll(val, dom, st, vt) == every(1, val, dom, st, vt)

\* the text handleSubmit puts in the success message
welcome(name) == <<"Registration successful! Welcome, ">> \o name \o <<"!">>

\* a pending reset callback; reused records whether the form was edited or
\* submitted again after the callback was scheduled
markReused(ts) == [i \in 1..Len(ts) |-> [reused |-> TRUE]]

\* a handler that takes the success path whatever validateAll returns
handleSubmit_unguarded(val, dom, st, msg, ts, vt) ==
    LET r    == validateAll(val, dom, st, vt)
        data == getFormData(val)
    IN  [ok         |-> r.ok,
         threw      |-> r.threw,
         ui         |-> r.ui,
         stored     |-> IF vt = "A" THEN saveEmail(data.email, st) ELSE st,
         successMsg |-> [show |-> TRUE, text |-> welcome(data.name)],
         timers     |-> Append(markReused(ts), [reused |-> FALSE])]

\* handleSubmit(e): the value validateAll returned and what the handler leaves
\* in the document, in localStorage and in the timer queue; when validateAll
\* throws the handler ends there, the success message already hidden
handleSubmit(val, dom, st, msg, ts, vt) ==
    LET r    == validateAll(val, dom, st, vt)
        data == getFormData(val)
    IN  IF r.ok
        THEN [ok         |-> TRUE,
              threw      |-> FALSE,
              ui         |-> r.ui,
              stored     |-> IF vt = "A" THEN saveEmail(data.email, st) ELSE st,
              successMsg |-> [show |-> TRUE, text |-> welcome(data.name)],
              timers     |-> Append(markReused(ts), [reused |-> FALSE])]
        ELSE [ok         |-> FALSE,
              threw      |-> r.threw,
              ui         |-> r.ui,
              stored     |-> st,
              successMsg |-> [msg EXCEPT !.show = FALSE],
              timers     |-> markReused(ts)]

\* a reset that leaves the text of the inputs
reset_keepsValues(msg) ==
    [value      |-> [f \in Fields |-> <<"A">>],
     ui         |-> clearedUi,
     successMsg |-> [msg EXCEPT !.show = FALSE]]

\* a reset that leaves the success message shown
reset_keepsMessage(msg) ==
    [value      |-> emptyValues,
     ui         |-> clearedUi,
     successMsg |-> msg]

\* reset(): the document it leaves
reset(msg) ==
    [value      |-> emptyValues,
     ui         |-> clearedUi,
     successMsg |-> [msg EXCEPT !.show = FALSE]]

----------------------------------------------------------------------------
(* Bounds and the values typed into the form *)

MaxTimers == 2

\* what the user types into each field
InputValues ==
    [name            |-> {<<>>, <<"A","l">>},
     email           |-> {<<>>, <<"a","@","b",".","c">>, <<"A","@","b",".","c"," ">>},
     password        |-> {<<>>, <<"A","b","c","1","2","3","4","5","!">>},
     confirmPassword |-> {<<>>, <<"A","b","c","1","2","3","4","5","!">>}]

----------------------------------------------------------------------------
(* The form in the browser *)

Init ==
    /\ variant \in {"A", "B"}
    /\ value = emptyValues
    /\ ui = clearedUi
    /\ stored \in (IF variant = "A" THEN {Null, EmptyString} ELSE {Null})
    /\ successMsg = [show |-> FALSE, text |-> <<>>]
    /\ timers = <<>>
    /\ last = [op |-> "init", field |-> "none", ok |-> TRUE, threw |-> FALSE]

\* the user leaves field f: the blur listener runs validateField(f)
Blur(f) ==
    LET r == validateField(f, value, ui, stored, variant) IN
    /\ ui' = r.ui
    /\ last' = [op |-> "blur", field |-> f, ok |-> r.ok, threw |-> r.threw]
    /\ UNCHANGED <<variant, value, stored, successMsg, timers>>

\* the user changes the text of field f to v: the input listener runs clearError(f)
InputChange(f, v) ==
    /\ v # value[f]
    /\ value' = [value EXCEPT ![f] = v]
    /\ ui' = clearError(f, ui)
    /\ timers' = markReused(timers)
    /\ last' = [op |-> "input", field |-> f, ok |-> TRUE, threw |-> FALSE]
    /\ UNCHANGED <<variant, stored, successMsg>>

\* the user submits the form: the submit listener runs handleSubmit
Submit ==
    LET h == handleSubmit(value, ui, stored, successMsg, timers, variant) IN
    /\ h.ok => Len(timers) < MaxTimers
    /\ ui' = h.ui
    /\ stored' = h.stored
    /\ successMsg' = h.successMsg
    /\ timers' = h.timers
    /\ last' = [op |-> "submit", field |-> "none", ok |-> h.ok, threw |-> h.threw]
    /\ UNCHANGED <<variant, value>>

\* the oldest pending timer expires: its callback runs reset()
Timeout ==
    LET r == reset(successMsg) IN
    /\ timers # <<>>
    /\ timers' = Tail(timers)
    /\ value' = r.value
    /\ ui' = r.ui
    /\ successMsg' = r.successMsg
    /\ last' = [op |-> "reset", field |-> "none", ok |-> TRUE, threw |-> FALSE]
    /\ UNCHANGED <<variant, stored>>

Next ==
    \/ \E f \in Fields : Blur(f)
    \/ \E f \in Fields : \E v \in InputValues[f] : InputChange(f, v)
    \/ Submit
    \/ Timeout

Spec == Init /\ [][Next]_vars

\* a timer set with setTimeout expires: the event loop runs its callback
FairSpec == Spec /\ WF_vars(Timeout)

----------------------------------------------------------------------------
(* The rule chains on bounded sets of records: the user has typed into one
   field (or into the two password fields), the focus is still in it, and
   leaving it validates it *)

MaxNameLen == 4

MaxEmailLen == 6

MaxTailLen == 3

NameAlphabet == {"A", "l", " ", "3", "\t"}

EmailAlphabet == {"x", "X", "@", ".", " "}

PasswordAlphabet == {"p", "P", "1", "!", " "}

\* the string of n characters c
Fill(c, n) == [i \in 1..n |-> c]

\* what is typed in the confirmation field next to password p
RulesConfirms(p) ==
    {<<>>, p, toLowerCase(p), p \o <<" ">>, <<" ">> \o p, <<" ">>,
     SubSeq(p, 1, Len(p) - 1)}

\* the item absent, empty, or as earlier submissions have left it
RulesRegistries ==
    {Null,
     EmptyString,
     JSONstringify(<<<<"x","@","x",".","x">>>>),
     JSONstringify(<<<<" ","x","@","x",".","x">>, <<"x","@","x",".","x","x">>>>)}

\* the examples of the documentation
RulesExamples ==
    [name     |-> {<<"A","l">>, <<"A">>, <<"A","n","n","a","3">>},
     email    |-> {<<"a","@","b">>, <<"a","@","b",".","c","o","m">>},
     password |-> {<<"p","a","s","s","w","o","r","d">>,
                   <<"P","a","s","s","w","o","r","d">>,
                   <<"P","a","s","s","w","o","r","d","1">>,
                   <<"P","a","s","s","w","o","r","d","1","!">>,
                   <<"A","b","c","1","2","3","4","5","!">>}]

\* the form with v typed into field f, the focus in f
Typed(f, v) ==
    /\ value = [emptyValues EXCEPT ![f] = v]
    /\ last = [op |-> "focus", field |-> f, ok |-> TRUE, threw |-> FALSE]

\* the form with password p and confirmation c, the focus in one of the two
TypedPasswords(p) ==
    \E c \in RulesConfirms(p), f \in {"password", "confirmPassword"} :
        /\ value = [emptyValues EXCEPT !["password"] = p, !["confirmPassword"] = c]
        /\ last = [op |-> "focus", field |-> f, ok |-> TRUE, threw |-> FALSE]

\* a name of up to MaxNameLen characters
RulesName ==
    /\ \/ \E k \in 0..MaxNameLen : \E v \in [1..k -> NameAlphabet] : Typed("name", v)
       \/ \E v \in RulesExamples["name"] : Typed("name", v)
    /\ stored = Null

\* an email of up to MaxEmailLen characters, against each registry
RulesEmail ==
    /\ \/ \E k \in 0..MaxEmailLen : \E v \in [1..k -> EmailAlphabet] : Typed("email", v)
       \/ \E v \in RulesExamples["email"] : Typed("email", v)
    /\ stored \in (IF variant = "A" THEN RulesRegistries ELSE {Null})

\* a password: a tail of up to MaxTailLen characters, alone or after a run of
\* one repeated character that brings it to the length the rule asks for
RulesPassword ==
    /\ \/ \E k \in 0..MaxTailLen : \E t \in [1..k -> PasswordAlphabet] :
             \/ TypedPasswords(t)
             \/ \E c \in PasswordAlphabet :
                   TypedPasswords(Fill(c, PasswordMinLength - 2) \o t)
       \/ \E p \in RulesExamples["password"] : TypedPasswords(p)
    /\ stored = Null

RulesInit ==
    /\ variant \in {"A", "B"}
    /\ ui = clearedUi
    /\ successMsg = [show |-> FALSE, text |-> <<>>]
    /\ timers = <<>>
    /\ \/ RulesName
       \/ RulesEmail
       \/ RulesPassword

\* the blur event is dispatched to the field that has the focus
RulesNext == \E f \in Fields : last.op = "focus" /\ last.field = f /\ Blur(f)

SpecRules == RulesInit /\ [][RulesNext]_vars

----------------------------------------------------------------------------
(* The equality rule of confirmPassword as a function of its two parameters:
   ValidationRule.validate takes the record as an optional parameter, so the
   rule can be called with the value alone *)

\* rules.confirmPassword[1].validate is called on the value of the field,
\* with the record data or, when data is Undefined, without one
ValidateRule(data) ==
    /\ last.op = "focus"
    /\ last' = [op    |-> IF data = Undefined THEN "validate(v)" ELSE "validate(v, data)",
                field |-> "confirmPassword",
                ok    |-> validate(rules(variant)["confirmPassword"][2],
                                   value["confirmPassword"], data, stored),
                threw |-> FALSE]
    /\ UNCHANGED <<variant, value, ui, stored, successMsg, timers>>

RecordInit ==
    /\ variant \in {"A", "B"}
    /\ ui = clearedUi
    /\ successMsg = [show |-> FALSE, text |-> <<>>]
    /\ timers = <<>>
    /\ RulesPassword

RecordNext ==
    \/ ValidateRule(Undefined)
    \/ ValidateRule(getFormData(value))

SpecRecord == RecordInit /\ [][RecordNext]_vars

----------------------------------------------------------------------------
(* Properties *)

\* the rules of field f that the record val violates
Violated(f, val, st, vt) ==
    {k \in 1..Len(rules(vt)[f]) : ~validate(rules(vt)[f][k], val[f], getFormData(val), st)}

\* the least of them, 0 when there is none
FirstViolated(f, val, st, vt) ==
    IF Violated(f, val, st, vt) = {} THEN 0
    ELSE CHOOSE k \in Violated(f, val, st, vt) : \A j \in Violated(f, val, st, vt) : k <= j

AllValid(val, st, vt) == \A f \in Fields : Violated(f, val, st, vt) = {}

Errored(f, text) == ui[f].error /\ ~ui[f].success /\ ui[f].text = text

Succeeded(f) == ~ui[f].error /\ ui[f].success /\ ui[f].text = ""

\* C1: after a submit that failed, every field whose value violates one of its
\* rules is marked errored with the message of its first violated rule, not
\* only the first failing field.
C1_EveryFieldEvaluated ==
    (last.op = "submit" /\ ~last.ok) =>
        \A f \in Fields :
            FirstViolated(f, value, stored, variant) # 0 =>
                Errored(f, message(rules(variant)[f][FirstViolated(f, value, stored, variant)]))

\* C2: a validation of field f reports exactly the message of the first rule,
\* in definition order, that the value violates, whatever later rules say, and
\* reports success with no message iff no rule is violated.
C2_FirstFailingRule ==
    last.op = "blur" =>
        LET f == last.field
            k == FirstViolated(f, value, stored, variant)
        IN  /\ last.ok <=> k = 0
            /\ k = 0 => Succeeded(f)
            /\ k # 0 => Errored(f, message(rules(variant)[f][k]))

\* a validated field that violates two rules at once shows the earlier message
C2_Witness ==
    /\ last.op = "blur"
    /\ Cardinality(Violated(last.field, value, stored, variant)) >= 2
    /\ 1 \notin Violated(last.field, value, stored, variant)
    /\ ui[last.field].text =
          message(rules(variant)[last.field][FirstViolated(last.field, value, stored, variant)])

\* C3: the value validateAll returns on a submit is true iff each of the four
\* fields of the record is valid.
C3_AggregateIffAllValid ==
    [][last'.op = "submit" => (last'.ok <=> AllValid(value, stored, variant))]_vars

\* a submit of a fully valid record returned true
C3_Witness == last.op = "submit" /\ last.ok /\ successMsg.show

\* C4: a submit of a record with an invalid field leaves the registry as it
\* was, schedules no reset and leaves the success message hidden; the success
\* path is taken only when every field is valid.
C4_SuccessPathGated ==
    [][last'.op = "submit" =>
          /\ ~AllValid(value, stored, variant) =>
                /\ stored' = stored
                /\ Len(timers') = Len(timers)
                /\ ~successMsg'.show
          /\ (successMsg'.show \/ stored' # stored \/ Len(timers') > Len(timers)) =>
                AllValid(value, stored, variant)]_vars

\* a submit failed while the success message of an earlier one was pending
C4_Witness ==
    /\ last.op = "submit" /\ ~last.ok
    /\ timers # <<>>
    /\ ~successMsg.show

\* C5: a pending reset does not fire once the form has been edited or
\* submitted again after the submission that scheduled it.
C5_ResetCancelledOnReuse ==
    [][last'.op = "reset" => ~Head(timers).reused]_vars

\* two strings equal up to the case of their letters
SameIgnoringCase(a, b) ==
    /\ Len(a) = Len(b)
    /\ \A i \in 1..Len(a) :
          \/ a[i] = b[i]
          \/ \E n \in 1..Len(UpperSeq) : {a[i], b[i]} = {UpperSeq[n], LowerSeq[n]}

\* s without its leading and trailing whitespace
Trimmed(s) ==
    LET inner == {i \in 1..Len(s) : s[i] \notin Whitespace} IN
    IF inner = {} THEN <<>>
    ELSE SubSeq(s, CHOOSE i \in inner : \A j \in inner : i <= j,
                   CHOOSE i \in inner : \A j \in inner : i >= j)

\* s has the shape local@domain.tld: one "@", no whitespace, a non-empty local
\* part, and after the "@" a "." with characters on both sides of it
EmailShaped(s) ==
    /\ Cardinality({i \in 1..Len(s) : s[i] = "@"}) = 1
    /\ \A i \in 1..Len(s) : s[i] \notin Whitespace
    /\ LET at   == CHOOSE i \in 1..Len(s) : s[i] = "@"
           rest == SubSeq(s, at + 1, Len(s))
       IN  /\ at > 1
           /\ \E d \in 2..(Len(rest) - 1) : rest[d] = "."

\* the emails the registry holds
Registry ==
    IF stored \in {Null, EmptyString} THEN {}
    ELSE {stored.items[i] : i \in 1..Len(stored.items)}

\* C6: with the uniqueness rule (variant A), a non-empty well-formed email is
\* rejected with "This email is already registered" when the registry holds
\* it up to letter case, and is accepted otherwise.
C6_EmailUniqueIgnoringCase ==
    (/\ last.op = "blur" /\ last.field = "email" /\ variant = "A"
     /\ EmailShaped(Trimmed(value["email"]))) =>
        IF \E e \in Registry : SameIgnoringCase(e, Trimmed(value["email"]))
        THEN ~last.ok /\ Errored("email", "This email is already registered")
        ELSE last.ok /\ Succeeded("email")

\* an email with an uppercase letter was rejected against a lowercase entry
C6_Witness ==
    /\ last.op = "blur" /\ last.field = "email" /\ variant = "A"
    /\ EmailShaped(Trimmed(value["email"]))
    /\ Trimmed(value["email"]) \notin Registry
    /\ \E e \in Registry : SameIgnoringCase(e, Trimmed(value["email"]))
    /\ Errored("email", "This email is already registered")

IsLetterOrSpace(c) == c \in Upper \cup Lower \cup {" "}

\* the outcome C7 gives the name field; "" stands for Valid
NameOutcome(v) ==
    IF Trimmed(v) = <<>> THEN "Name is required"
    ELSE IF Len(Trimmed(v)) < 2 THEN "Name must be at least 2 characters long"
    ELSE IF \E i \in 1..Len(Trimmed(v)) : ~IsLetterOrSpace(Trimmed(v)[i])
         THEN "Name can only contain letters and spaces"
    ELSE ""

\* C7: the name field is required, then at least 2 characters long after
\* trimming, then made of the letters A-Z, a-z and the space character only.
C7_NameOutcome ==
    (last.op = "blur" /\ last.field = "name") =>
        /\ ui["name"].text = NameOutcome(value["name"])
        /\ last.ok <=> NameOutcome(value["name"]) = ""

\* the outcome C8 gives the password field; "" stands for Valid
PasswordOutcome(v) ==
    IF Len(v) = 0 THEN "Password is required"
    ELSE IF Len(v) < 8 THEN "Password must be at least 8 characters long"
    ELSE IF \A i \in 1..Len(v) : v[i] \notin Upper
         THEN "Password must contain at least one uppercase letter"
    ELSE IF \A i \in 1..Len(v) : v[i] \notin Lower
         THEN "Password must contain at least one lowercase letter"
    ELSE IF \A i \in 1..Len(v) : v[i] \notin Digit
         THEN "Password must contain at least one number"
    ELSE IF \A i \in 1..Len(v) : v[i] \notin Special
         THEN "Password must contain at least one special character"
    ELSE ""

\* C8: the password rules fire in the order required, length, uppercase,
\* lowercase, digit, special character, and the outcome is the first violated
\* one; "password", "Password", "Password1" and "Password1!" get the uppercase,
\* number and special-character messages and Valid.
C8_PasswordOutcome ==
    (last.op = "blur" /\ last.field = "password") =>
        /\ ui["password"].text = PasswordOutcome(value["password"])
        /\ last.ok <=> PasswordOutcome(value["password"]) = ""
        /\ value["password"] = <<"p","a","s","s","w","o","r","d">> =>
              ui["password"].text = "Password must contain at least one uppercase letter"
        /\ value["password"] = <<"P","a","s","s","w","o","r","d">> =>
              ui["password"].text = "Password must contain at least one number"
        /\ value["password"] = <<"P","a","s","s","w","o","r","d","1">> =>
              ui["password"].text = "Password must contain at least one special character"
        /\ value["password"] = <<"P","a","s","s","w","o","r","d","1","!">> =>
              Succeeded("password")

\* a long enough password without lowercase letter and without digit was
\* given the lowercase message
C8_Witness ==
    /\ last.op = "blur" /\ last.field = "password"
    /\ Len(value["password"]) >= 8
    /\ \A i \in 1..Len(value["password"]) : value["password"][i] \notin Lower \cup Digit
    /\ Errored("password", "Password must contain at least one lowercase letter")

\* C9: for the email field the required check comes before the format check:
\* an empty or whitespace-only value gets "Email is required", a non-empty
\* trimmed value that is not of the shape local@domain.tld gets "Please enter a
\* valid email address" (so does "a@b"), and a value of that shape, such as
\* "a@b.com", passes the format rule.
C9_EmailRequiredThenFormat ==
    (last.op = "blur" /\ last.field = "email") =>
        /\ Trimmed(value["email"]) = <<>> => Errored("email", "Email is required")
        /\ (Trimmed(value["email"]) # <<>> /\ ~EmailShaped(Trimmed(value["email"]))) =>
              Errored("email", "Please enter a valid email address")
        /\ EmailShaped(Trimmed(value["email"])) =>
              ui["email"].text \notin {"Email is required", "Please enter a valid email address"}
        /\ value["email"] = <<"a","@","b">> =>
              Errored("email", "Please enter a valid email address")
        /\ (value["email"] = <<"a","@","b",".","c","o","m">> /\ Registry = {}) =>
              Succeeded("email")

\* an email with a local part and a domain but no "." after the "@" was
\* given the format message
C9_Witness ==
    /\ last.op = "blur" /\ last.field = "email"
    /\ \E i \in 2..(Len(value["email"]) - 1) : value["email"][i] = "@"
    /\ \A i \in 1..Len(value["email"]) : value["email"][i] \notin Whitespace \cup {"."}
    /\ Errored("email", "Please enter a valid email address")

\* C10: confirmPassword is Valid iff it is non-empty and equal to the password
\* character for character; an empty value gets "Please confirm your
\* password" even when the password is empty too, and any other value that
\* differs from the password, be it only in case or in surrounding
\* whitespace, gets "Passwords do not match".
C10_ConfirmExactMatch ==
    (last.op = "blur" /\ last.field = "confirmPassword") =>
        /\ last.ok <=> (value["confirmPassword"] # <<>>
                        /\ value["confirmPassword"] = value["password"])
        /\ last.ok => Succeeded("confirmPassword")
        /\ value["confirmPassword"] = <<>> =>
              Errored("confirmPassword", "Please confirm your password")
        /\ (value["confirmPassword"] # <<>>
            /\ value["confirmPassword"] # value["password"]) =>
              Errored("confirmPassword", "Passwords do not match")

\* a confirmation that differs from the password only in surrounding
\* whitespace was rejected
C10_Witness ==
    /\ last.op = "blur" /\ last.field = "confirmPassword"
    /\ value["confirmPassword"] # value["password"]
    /\ value["password"] # <<>>
    /\ Trimmed(value["confirmPassword"]) = value["password"]
    /\ Errored("confirmPassword", "Passwords do not match")

\* C11: a validation of a field changes no state: no mark or message of any
\* field and no registry content.
C11_ValidateFieldPure ==
    [][last'.op = "blur" => (ui' = ui /\ stored' = stored)]_vars

\* C12: a blur on field f leaves f errored with the message of its first
\* violated rule when its value is invalid and succeeded with an empty message
\* when it is valid, and leaves the marks and messages of the other fields, the
\* values, the registry and the success message as they were.
C12_BlurFrame ==
    [][last'.op = "blur" =>
          LET f == last'.field
              k == FirstViolated(f, value, stored, variant)
          IN  /\ k # 0 => ui'[f] = [error |-> TRUE, success |-> FALSE,
                                    text |-> message(rules(variant)[f][k])]
              /\ k = 0 => ui'[f] = [error |-> FALSE, success |-> TRUE, text |-> ""]
              /\ \A g \in Fields \ {f} : ui'[g] = ui[g]
              /\ value' = value
              /\ stored' = stored
              /\ successMsg' = successMsg]_vars

\* a blur happened while another field was errored, a third one succeeded and
\* the success message was shown
C12_Witness ==
    /\ last.op = "blur"
    /\ \E g \in Fields \ {last.field} : ui[g].error
    /\ \E g \in Fields \ {last.field} : ui[g].success
    /\ successMsg.show

\* C13: an input event on field f removes f's error mark and message and
\* nothing else: f's success mark, the other fields' marks and messages, the
\* registry, the success message and the pending resets stay, whatever the
\* new value is.
C13_InputFrame ==
    [][last'.op = "input" =>
          LET f == last'.field
          IN  /\ ui'[f] = [error |-> FALSE, success |-> ui[f].success, text |-> ""]
              /\ \A g \in Fields \ {f} : ui'[g] = ui[g]
              /\ stored' = stored
              /\ successMsg' = successMsg
              /\ Len(timers') = Len(timers)]_vars

\* after an input event the field still carries its success mark although its
\* new value violates a rule, and a reset is pending
C13_Witness ==
    /\ last.op = "input"
    /\ ui[last.field].success
    /\ FirstViolated(last.field, value, stored, variant) # 0
    /\ timers # <<>>

\* the entries of the stored array, in order
RegistryItems(st) == IF st \in {Null, EmptyString} THEN <<>> ELSE st.items

\* C14: the registry has no duplicate entries and no entry with an uppercase
\* letter; entries are never removed, and an entry is added only by a submit
\* whose validateAll returned true.
C14_RegistryLowercaseSet ==
    [][/\ \A i, j \in 1..Len(RegistryItems(stored')) :
             RegistryItems(stored')[i] = RegistryItems(stored')[j] => i = j
       /\ \A i \in 1..Len(RegistryItems(stored')) :
             \A n \in 1..Len(RegistryItems(stored')[i]) :
                RegistryItems(stored')[i][n] \notin Upper
       /\ Len(RegistryItems(stored')) >= Len(RegistryItems(stored))
       /\ SubSeq(RegistryItems(stored'), 1, Len(RegistryItems(stored))) = RegistryItems(stored)
       /\ RegistryItems(stored') # RegistryItems(stored) =>
             (last'.op = "submit" /\ last'.ok /\ AllValid(value, stored, variant))]_vars

\* two submissions have been stored, one of them typed with an uppercase letter
C14_Witness ==
    /\ Len(RegistryItems(stored)) = 2
    /\ \E n \in 1..Len(value["email"]) : value["email"][n] \in Upper

C16_ResetEventuallyFires ==
    (last.op = "submit" /\ last.ok) ~>
        (/\ last.op = "reset"
         /\ \A f \in Fields :
               /\ value[f] = <<>>
               /\ ~ui[f].error /\ ~ui[f].success /\ ui[f].text = ""
         /\ ~successMsg.show)

\* a reset has fired after a successful submission
C16_Witness ==
    /\ last.op = "reset"
    /\ successMsg.text # <<>>
    /\ \A f \in Fields : value[f] = <<>>

\* C17: in variant A, once a submission with email e has succeeded (its
\* lowercased email is in the registry), a later submission whose email equals
\* e after trimming and ignoring case is rejected, on the email field with
\* "This email is already registered" when the name passes.
C17_SameAddressRejected ==
    [][(/\ last'.op = "submit"
        /\ variant = "A"
        /\ \E e \in Registry : SameIgnoringCase(Trimmed(e), Trimmed(value["email"])))
       => /\ ~last'.ok
          /\ FirstViolated("name", value, stored, variant) = 0 =>
                ui'["email"] = [error |-> TRUE, success |-> FALSE,
                                text |-> "This email is already registered"]]_vars

\* C18: no field is marked both errored and succeeded, and a field's error
\* message is non-empty iff the field is marked errored.
C18_MarksConsistent ==
    \A f \in Fields :
        /\ ~(ui[f].error /\ ui[f].success)
        /\ ui[f].text # "" <=> ui[f].error

\* an errored field was edited while another field is errored and a third
\* one succeeded
C18_Witness ==
    /\ last.op = "input"
    /\ FirstViolated(last.field, value, stored, variant) # 0
    /\ \E g \in Fields : ui[g].error
    /\ \E g \in Fields : ui[g].success

\* confirmPassword marked succeeded has the value of password
ConfirmMarkSound == ui["confirmPassword"].success => value["confirmPassword"] = value["password"]

\* C19: whenever confirmPassword is marked succeeded its value equals the
\* value of password.
C19_ConfirmSucceededMatches == ConfirmMarkSound

\* C19, amended: only an input event on password or confirmPassword can leave
\* confirmPassword marked succeeded on a value that differs from password.
C19_MarkStaleOnlyByInput ==
    [][(ConfirmMarkSound /\ ~(last'.op = "input" /\ last'.field \in {"password", "confirmPassword"}))
       => ConfirmMarkSound']_vars

\* confirmPassword was validated against a non-empty password and marked
\* succeeded
C19_Witness ==
    /\ last.op = "blur" /\ last.field = "confirmPassword"
    /\ ui["confirmPassword"].success
    /\ value["password"] # <<>>

\* C20: whenever the success message is shown a reset is pending, and a submit
\* that fails validation leaves the success message hidden.
C20_ShownOnlyWhilePending ==
    /\ successMsg.show => timers # <<>>
    /\ (last.op = "submit" /\ ~last.ok) => ~successMsg.show

\* the success message is shown with two resets pending
C20_Witness == successMsg.show /\ Len(timers) = 2

\* C21: the equality rule of confirmPassword, evaluated without a record,
\* returns false for every value.
C21_ConfirmFailsClosed == last.op = "validate(v)" => ~last.ok

\* the rule was evaluated without a record on a non-empty value that equals
\* the password typed in the form
C21_Witness ==
    /\ last.op = "validate(v)"
    /\ ~last.ok
    /\ value["confirmPassword"] # <<>>
    /\ value["confirmPassword"] = value["password"]

====
